---- MODULE Spec2Model ----
(***************************************************************************)
(* Model of the credential decoders of src/qr_extractor.py:                *)
(*   parse_varint, parse_length_delimited                 (lines 23-39)    *)
(*   decode_google_authenticator_migration                (lines 41-77)    *)
(*   decode_otp_parameters                                (lines 79-124)   *)
(*   QRExtractor.decode_qr_texts                          (lines 251-332)  *)
(*                                                                         *)
(* Conventions.                                                            *)
(*  - A byte buffer is a sequence of naturals 0..255.  Python offsets are  *)
(*    0-based, so data[offset] of the source is data[offset + 1] here.     *)
(*  - A Python int read off the wire is unbounded.  It is kept as the      *)
(*    little-endian sequence of its bits without leading zero bits (0 is   *)
(*    the empty sequence), so that |, &, << and >> are the real bit        *)
(*    operations at any width.  Val turns such an int into a natural.      *)
(*  - A Python str is the sequence of its code points; a dict is a         *)
(*    function whose domain is its key set; a list is a sequence.          *)
(***************************************************************************)
EXTENDS Naturals, Sequences, FiniteSets, TLC

VARIABLES
    v,          \* varint round trip: the integer to encode (bits)
    vdata,      \* varint round trip: its encoding
    vres,       \* varint round trip: what parse_varint returned
    vpc,        \* varint round trip: "start", "encoded", "parsed", or "off"
    mig_items,    \* migration: the top-level fields the buffer is built from
    mig_data,     \* migration: data of decode_google_authenticator_migration
    mig_offset,   \* migration: its local offset
    mig_accounts, \* migration: its local accounts
    mig_pc,       \* migration: "loop", "done" (returned), or "off"
    mig_iterations, \* migration: iterations of the while loop so far
    prim_data,    \* primitives: the buffer
    prim_offset,  \* primitives: the offset of the call
    prim_op,      \* primitives: the function called, or "none"
    prim_ret,     \* primitives: how the call ended
    qr_texts,     \* decode_qr_texts: texts
    qr_index,     \* decode_qr_texts: number of texts the for loop has taken
    qr_decoded,   \* decode_qr_texts: decoded_data
    qr_pc,        \* decode_qr_texts: "loop", "done" (returned), or "off"
    otp_items,    \* otp parameters: the fields the sub-message is built from
    otp_data,     \* otp parameters: data of decode_otp_parameters
    otp_offset,   \* otp parameters: its local offset
    otp_account,  \* otp parameters: its local account
    otp_pc,       \* otp parameters: "loop", "done" (returned), or "off"
    otp_iterations  \* otp parameters: iterations of the while loop so far

varintVars == <<v, vdata, vres, vpc>>

migVars ==
    <<mig_items, mig_data, mig_offset, mig_accounts, mig_pc, mig_iterations>>

primVars == <<prim_data, prim_offset, prim_op, prim_ret>>

qrVars == <<qr_texts, qr_index, qr_decoded, qr_pc>>

otpVars ==
    <<otp_items, otp_data, otp_offset, otp_account, otp_pc, otp_iterations>>

vars == <<varintVars, migVars, primVars, qrVars, otpVars>>

(***************************************************************************)
(* Python ints as bit sequences                                            *)
(***************************************************************************)
Min(a, b) == IF a <= b THEN a ELSE b

Max(a, b) == IF a >= b THEN a ELSE b

RECURSIVE Norm(_)
\* drop the leading (most significant, last) zero bits
Norm(b) ==
    IF b = <<>> THEN <<>>
    ELSE IF b[Len(b)] = 0 THEN Norm(SubSeq(b, 1, Len(b) - 1))
    ELSE b

RECURSIVE BitsOf(_)
\* the int with natural value n
BitsOf(n) == IF n = 0 THEN <<>> ELSE <<n % 2>> \o BitsOf(n \div 2)

RECURSIVE Val(_)
\* the natural value of an int (of fewer than 31 bits)
Val(b) == IF b = <<>> THEN 0 ELSE b[1] + 2 * Val(Tail(b))

Bit(b, i) == IF i <= Len(b) THEN b[i] ELSE 0

\* a | b
BitOr(a, b) ==
    Norm([i \in 1..Max(Len(a), Len(b)) |-> Max(Bit(a, i), Bit(b, i))])

\* a & b
BitAnd(a, b) ==
    Norm([i \in 1..Min(Len(a), Len(b)) |-> Min(Bit(a, i), Bit(b, i))])

\* a << s
Shl(a, s) == IF a = <<>> THEN <<>> ELSE [i \in 1..s |-> 0] \o a

\* a >> s
Shr(a, s) == SubSeq(a, s + 1, Len(a))

(***************************************************************************)
(* parse_varint, parse_length_delimited                                    *)
(***************************************************************************)
\* a slip: the continuation bit is not masked off
varint_accumulate_unmasked(result, byte, shift) ==
    BitOr(result, Shl(byte, shift))

\* result |= (byte & 0x7F) << shift
varint_accumulate(result, byte, shift) ==
    BitOr(result, Shl(BitAnd(byte, BitsOf(127)), shift))

RECURSIVE varint_loop(_, _, _, _)
\* the while loop of parse_varint from the state (offset, result, shift)
varint_loop(data, offset, result, shift) ==
    IF offset < Len(data)
    THEN LET byte == BitsOf(data[offset + 1])
         IN  IF BitAnd(byte, BitsOf(128)) = BitsOf(0)
             THEN <<varint_accumulate(result, byte, shift), offset + 1>>
             ELSE varint_loop(data, offset + 1,
                              varint_accumulate(result, byte, shift), shift + 7)
    ELSE <<result, offset>>

\* parse_varint(data, offset) -> (result, offset)
parse_varint(data, offset) == varint_loop(data, offset, BitsOf(0), 0)

\* data[a:b] of Python for 0 <= a
Slice(data, a, b) == SubSeq(data, Min(a, Len(data)) + 1, Min(b, Len(data)))

\* a slip: the length is returned in place of the offset after the payload
parse_length_delimited_length(data, offset) ==
    LET r == parse_varint(data, offset)
        length == Val(r[1])
        offset2 == r[2]
    IN  <<Slice(data, offset2, offset2 + length), length>>

\* parse_length_delimited(data, offset) -> (bytes, offset)
parse_length_delimited(data, offset) ==
    LET r == parse_varint(data, offset)
        length == Val(r[1])
        offset2 == r[2]
    IN  <<Slice(data, offset2, offset2 + length), offset2 + length>>

(***************************************************************************)
(* Python values: dicts, str literals, base64.b32encode, bytes.decode      *)
(***************************************************************************)
EmptyDict == <<>>

\* d[k] = x
Put(d, k, x) == [y \in DOMAIN d \cup {k} |-> IF y = k THEN x ELSE d[y]]

\* d.get(k, default)
Get(d, k, default) == IF k \in DOMAIN d THEN d[k] ELSE default

\* 'SHA1', 'SHA256', 'SHA512', 'TOTP', 'HOTP' as code points
STR_SHA1 == <<83, 72, 65, 49>>

STR_SHA256 == <<83, 72, 65, 50, 53, 54>>

STR_SHA512 == <<83, 72, 65, 53, 49, 50>>

STR_TOTP == <<84, 79, 84, 80>>

STR_HOTP == <<72, 79, 84, 80>>

RECURSIVE BitString(_)
\* the bits of a byte buffer, most significant bit of each byte first
BitString(bytes) ==
    IF bytes = <<>> THEN <<>>
    ELSE [i \in 1..8 |-> (Head(bytes) \div 2^(8 - i)) % 2] \o BitString(Tail(bytes))

\* the base32 alphabet (RFC 4648): A-Z, 2-7
B32Char(x) == IF x < 26 THEN 65 + x ELSE 24 + x

\* base64.b32encode(bytes).decode('utf-8'): 5 bits per character, the last
\* group filled with zero bits, '=' up to a multiple of 8 characters
b32encode(bytes) ==
    LET bits == BitString(bytes)
        bitAt(i) == IF i <= Len(bits) THEN bits[i] ELSE 0
        nchars == (Len(bits) + 4) \div 5
        total == ((nchars + 7) \div 8) * 8
        group(k) == 16 * bitAt(5 * k - 4) + 8 * bitAt(5 * k - 3)
                    + 4 * bitAt(5 * k - 2) + 2 * bitAt(5 * k - 1) + bitAt(5 * k)
    IN  [k \in 1..total |-> IF k <= nchars THEN B32Char(group(k)) ELSE 61]

IsAscii(b) == b < 128

\* bytes.decode('utf-8', errors='ignore') on buffers without a UTF-8 lead
\* byte (0xC2..0xF4): every byte below 0x80 is its own code point and every
\* other byte is an invalid sequence, which is left out
utf8_decode_ignore(bytes) == SelectSeq(bytes, IsAscii)

(***************************************************************************)
(* decode_otp_parameters                                                   *)
(*                                                                         *)
(* The loop keeps (offset, account); an iteration gives the next pair,     *)
(* stop = TRUE when it ends in break, and the kind of branch it took.      *)
(* Each branch of the if/elif chain is a definition that takes what the    *)
(* branch's parse call returned.                                           *)
(***************************************************************************)
\* secret_data, offset = ld; account['secret'] = base64.b32encode(secret_data)
otp_secret(account, ld) ==
    [offset |-> ld[2], account |-> Put(account, "secret", b32encode(ld[1])),
     stop |-> FALSE, branch |-> "bytes_field"]

\* name_data, offset = ld; account['name'] = name_data.decode(...)
otp_name(account, ld) ==
    [offset |-> ld[2],
     account |-> Put(account, "name", utf8_decode_ignore(ld[1])),
     stop |-> FALSE, branch |-> "bytes_field"]

\* issuer_data, offset = ld; account['issuer'] = issuer_data.decode(...)
otp_issuer(account, ld) ==
    [offset |-> ld[2],
     account |-> Put(account, "issuer", utf8_decode_ignore(ld[1])),
     stop |-> FALSE, branch |-> "bytes_field"]

\* algorithm_map.get(algorithm, 'SHA1')
algorithm_map(algorithm) ==
    IF algorithm = BitsOf(2) THEN STR_SHA256
    ELSE IF algorithm = BitsOf(3) THEN STR_SHA512
    ELSE STR_SHA1

\* algorithm, offset = vi; account['algorithm'] = algorithm_map.get(...)
otp_algorithm(account, vi) ==
    [offset |-> vi[2], account |-> Put(account, "algorithm", algorithm_map(vi[1])),
     stop |-> FALSE, branch |-> "varint_field"]

\* digits, offset = vi; account['digits'] = digits
otp_digits(account, vi) ==
    [offset |-> vi[2], account |-> Put(account, "digits", Val(vi[1])),
     stop |-> FALSE, branch |-> "varint_field"]

\* type_map.get(otp_type, 'TOTP')
type_map(otp_type) ==
    IF otp_type = BitsOf(0) THEN STR_HOTP ELSE STR_TOTP

\* otp_type, offset = vi; account['type'] = type_map.get(otp_type, 'TOTP')
otp_type_field(account, vi) ==
    [offset |-> vi[2], account |-> Put(account, "type", type_map(vi[1])),
     stop |-> FALSE, branch |-> "varint_field"]

\* counter, offset = vi; account['counter'] = counter
otp_counter(account, vi) ==
    [offset |-> vi[2], account |-> Put(account, "counter", Val(vi[1])),
     stop |-> FALSE, branch |-> "varint_field"]

\* a slip: a length-delimited field is skipped as its length varint alone
otp_skip_unknown_length(data, offset, account, wire_type) ==
    IF wire_type = BitsOf(0) \/ wire_type = BitsOf(2)
    THEN [offset |-> parse_varint(data, offset)[2], account |-> account,
          stop |-> FALSE,
          branch |-> IF wire_type = BitsOf(0) THEN "skip_varint" ELSE "skip_bytes"]
    ELSE [offset |-> offset, account |-> account, stop |-> TRUE,
          branch |-> "break"]

\* the else branch: skip an unknown field by its wire type, or break
otp_skip_unknown(data, offset, account, wire_type) ==
    IF wire_type = BitsOf(0)
    THEN [offset |-> parse_varint(data, offset)[2], account |-> account,
          stop |-> FALSE, branch |-> "skip_varint"]
    ELSE IF wire_type = BitsOf(2)
    THEN [offset |-> parse_length_delimited(data, offset)[2],
          account |-> account, stop |-> FALSE, branch |-> "skip_bytes"]
    ELSE [offset |-> offset, account |-> account, stop |-> TRUE,
          branch |-> "break"]

\* the if/elif chain on (field_number, wire_type), offset after the header
otp_dispatch(data, offset, account, field_number, wire_type) ==
    LET Is(f, w) == field_number = BitsOf(f) /\ wire_type = BitsOf(w)
    IN  IF Is(1, 2) THEN otp_secret(account, parse_length_delimited(data, offset))
        ELSE IF Is(2, 2) THEN otp_name(account, parse_length_delimited(data, offset))
        ELSE IF Is(3, 2) THEN otp_issuer(account, parse_length_delimited(data, offset))
        ELSE IF Is(4, 0) THEN otp_algorithm(account, parse_varint(data, offset))
        ELSE IF Is(5, 0) THEN otp_digits(account, parse_varint(data, offset))
        ELSE IF Is(6, 0) THEN otp_type_field(account, parse_varint(data, offset))
        ELSE IF Is(7, 0) THEN otp_counter(account, parse_varint(data, offset))
        ELSE otp_skip_unknown(data, offset, account, wire_type)

\* field_header, offset = header; field_number = field_header >> 3;
\* wire_type = field_header & 0x7
otp_header(data, account, header) ==
    otp_dispatch(data, header[2], account,
                 Shr(header[1], 3), BitAnd(header[1], BitsOf(7)))

\* one iteration of the loop, entered with offset < len(data)
otp_iteration(data, offset, account) ==
    otp_header(data, account, parse_varint(data, offset))

RECURSIVE otp_loop(_, _, _)
\* after an iteration s: return on break, else go round the loop again
otp_after(data, s) ==
    IF s.stop THEN s.account ELSE otp_loop(data, s.offset, s.account)

\* the while loop of decode_otp_parameters from the state (offset, account)
otp_loop(data, offset, account) ==
    IF offset < Len(data)
    THEN otp_after(data, otp_iteration(data, offset, account))
    ELSE account

\* decode_otp_parameters(data) -> account
decode_otp_parameters(data) == otp_loop(data, 0, EmptyDict)

(***************************************************************************)
(* decode_google_authenticator_migration                                   *)
(*                                                                         *)
(* The loop keeps (offset, accounts); an iteration gives the next pair,    *)
(* stop = TRUE when it ends in break, and the name of the branch it took.  *)
(***************************************************************************)
\* a slip: the account is appended whether it is empty or not
mig_append_always(accounts, account) == Append(accounts, account)

\* a slip: the account is put in front
mig_append_front(accounts, account) ==
    IF account # EmptyDict THEN <<account>> \o accounts ELSE accounts

\* if account: accounts.append(account)
mig_append(accounts, account) ==
    IF account # EmptyDict THEN Append(accounts, account) ELSE accounts

\* otp_data, offset = ld; account = decode_otp_parameters(otp_data); append
mig_otp_parameters(accounts, ld) ==
    [offset |-> ld[2],
     accounts |-> mig_append(accounts, decode_otp_parameters(ld[1])),
     stop |-> FALSE, branch |-> "otp_parameters"]

\* version / batch_size / batch_index / batch_id, offset = vi
mig_batch_field(accounts, vi) ==
    [offset |-> vi[2], accounts |-> accounts, stop |-> FALSE, branch |-> "batch_field"]

\* a slip: a field of another wire type is skipped as 4 fixed bytes
mig_skip_unknown_fixed(data, offset, accounts, wire_type) ==
    IF wire_type = BitsOf(0)
    THEN [offset |-> parse_varint(data, offset)[2], accounts |-> accounts,
          stop |-> FALSE, branch |-> "skip_varint"]
    ELSE IF wire_type = BitsOf(2)
    THEN [offset |-> parse_length_delimited(data, offset)[2],
          accounts |-> accounts, stop |-> FALSE, branch |-> "skip_bytes"]
    ELSE [offset |-> offset + 4, accounts |-> accounts, stop |-> FALSE,
          branch |-> "break"]

\* the else branch: skip an unknown field by its wire type, or break
mig_skip_unknown(data, offset, accounts, wire_type) ==
    IF wire_type = BitsOf(0)
    THEN [offset |-> parse_varint(data, offset)[2], accounts |-> accounts,
          stop |-> FALSE, branch |-> "skip_varint"]
    ELSE IF wire_type = BitsOf(2)
    THEN [offset |-> parse_length_delimited(data, offset)[2],
          accounts |-> accounts, stop |-> FALSE, branch |-> "skip_bytes"]
    ELSE [offset |-> offset, accounts |-> accounts, stop |-> TRUE,
          branch |-> "break"]

\* the if/elif chain on (field_number, wire_type), offset after the header
mig_dispatch(data, offset, accounts, field_number, wire_type) ==
    LET Is(f, w) == field_number = BitsOf(f) /\ wire_type = BitsOf(w)
    IN  IF Is(1, 2)
        THEN mig_otp_parameters(accounts, parse_length_delimited(data, offset))
        ELSE IF Is(2, 0) \/ Is(3, 0) \/ Is(4, 0) \/ Is(5, 0)
        THEN mig_batch_field(accounts, parse_varint(data, offset))
        ELSE mig_skip_unknown(data, offset, accounts, wire_type)

\* field_header, offset = header; field_number = field_header >> 3;
\* wire_type = field_header & 0x7
mig_header(data, accounts, header) ==
    mig_dispatch(data, header[2], accounts,
                 Shr(header[1], 3), BitAnd(header[1], BitsOf(7)))

\* one iteration of the loop, entered with offset < len(data)
mig_iteration(data, offset, accounts) ==
    mig_header(data, accounts, parse_varint(data, offset))

RECURSIVE mig_loop(_, _, _)
\* after an iteration s: return on break, else go round the loop again
mig_after(data, s) ==
    IF s.stop THEN s.accounts ELSE mig_loop(data, s.offset, s.accounts)

\* the while loop of decode_google_authenticator_migration
mig_loop(data, offset, accounts) ==
    IF offset < Len(data)
    THEN mig_after(data, mig_iteration(data, offset, accounts))
    ELSE accounts

\* decode_google_authenticator_migration(data) -> accounts
decode_google_authenticator_migration(data) == mig_loop(data, 0, <<>>)

(***************************************************************************)
(* QRExtractor.decode_qr_texts                                             *)
(*                                                                         *)
(* A text is given by what text.startswith and urllib.parse.urlparse make  *)
(* of it: prefix is the scheme prefix that the startswith tests look for   *)
(* ("otpauth-migration://", "otpauth://" or ""), netloc and path are       *)
(* parsed_url.netloc and parsed_url.path, and query is parsed_url.query as *)
(* the sequence of its key=value pairs <<key, value>>, percent-decoded.    *)
(***************************************************************************)
STR_UNKNOWN == <<85, 78, 75, 78, 79, 87, 78>>

STR_PLAIN == <<80, 76, 65, 73, 78>>

\* the keys of a query that have a value that is not blank
QueryKeys(query) ==
    {query[i][1] : i \in {j \in 1..Len(query) : query[j][2] # <<>>}}

RECURSIVE ValuesOf(_, _)
\* the values of key in a query that are not blank, in order
ValuesOf(query, key) ==
    IF query = <<>> THEN <<>>
    ELSE (IF Head(query)[1] = key /\ Head(query)[2] # <<>>
          THEN <<Head(query)[2]>> ELSE <<>>) \o ValuesOf(Tail(query), key)

\* urllib.parse.parse_qs(query): key -> list of its values; a pair with a
\* blank value is left out (keep_blank_values=False)
parse_qs(query) == [key \in QueryKeys(query) |-> ValuesOf(query, key)]

\* a slip: the last value of the list, [-1]
query_get_last(query_params, key, default) ==
    Get(query_params, key, <<default>>)[Len(Get(query_params, key, <<default>>))]

\* query_params.get(key, [default])[0]
query_get(query_params, key, default) == Get(query_params, key, <<default>>)[1]

RECURSIVE lstrip(_, _)
\* s.lstrip(c)
lstrip(s, c) == IF s # <<>> /\ Head(s) = c THEN lstrip(Tail(s), c) ELSE s

RECURSIVE split(_, _)
\* s.split(c): the segments between the occurrences of c, at least one
split(s, c) ==
    IF \A i \in 1..Len(s) : s[i] # c THEN <<s>>
    ELSE LET k == CHOOSE i \in 1..Len(s) :
                      s[i] = c /\ \A j \in 1..(i - 1) : s[j] # c
         IN  <<SubSeq(s, 1, k - 1)>> \o split(SubSeq(s, k + 1, Len(s)), c)

\* s.upper() on ASCII
upper(s) == [i \in 1..Len(s) |-> IF s[i] >= 97 /\ s[i] <= 122 THEN s[i] - 32 ELSE s[i]]

IsDigit(c) == c >= 48 /\ c <= 57

\* int(s) succeeds; on strings of ASCII digits and letters (no sign, blank
\* or underscore) that is: s is a non-empty string of digits
int_ok(s) == s # <<>> /\ \A i \in 1..Len(s) : IsDigit(s[i])

RECURSIVE int(_)
\* int(s) for a string of digits
int(s) == IF s = <<>> THEN 0 ELSE 10 * int(SubSeq(s, 1, Len(s) - 1)) + (s[Len(s)] - 48)

\* the place of a character in the base64 alphabet A-Z a-z 0-9 + /
B64Index(c) ==
    IF c >= 65 /\ c <= 90 THEN c - 65
    ELSE IF c >= 97 /\ c <= 122 THEN c - 71
    ELSE IF c >= 48 /\ c <= 57 THEN c + 4
    ELSE IF c = 43 THEN 62
    ELSE 63

IsPad(c) == c = 61

IsNotPad(c) == c # 61

\* encoded_data += '=' * (4 - missing_padding) if missing_padding
add_padding(encoded_data) ==
    IF Len(encoded_data) % 4 # 0
    THEN encoded_data \o [i \in 1..(4 - (Len(encoded_data) % 4)) |-> 61]
    ELSE encoded_data

\* base64.b64decode(s) succeeds, for s made of alphabet characters and then
\* '=' characters: the last group of data characters is whole, or has 2
\* characters and 2 '=' or more, or 3 characters and one '=' or more
b64decode_ok(s) ==
    LET n == Len(SelectSeq(s, IsNotPad))
        pad == Len(SelectSeq(s, IsPad))
    IN  \/ n % 4 = 0
        \/ n % 4 = 2 /\ pad >= 2
        \/ n % 4 = 3 /\ pad >= 1

\* base64.b64decode(s) when it succeeds: 6 bits per data character, cut into
\* whole bytes
b64decode(s) ==
    LET chars == SelectSeq(s, IsNotPad)
        bit(i) == (B64Index(chars[(i + 5) \div 6]) \div 2^(5 - ((i - 1) % 6))) % 2
        byte(k) == 128 * bit(8 * k - 7) + 64 * bit(8 * k - 6) + 32 * bit(8 * k - 5)
                   + 16 * bit(8 * k - 4) + 8 * bit(8 * k - 3) + 4 * bit(8 * k - 2)
                   + 2 * bit(8 * k - 1) + bit(8 * k)
    IN  [k \in 1..((6 * Len(chars)) \div 8) |-> byte(k)]

\* the dict appended for one account of a migration payload
migration_entry(account, text) ==
    [type |-> "google_authenticator_migration",
     format |-> STR_TOTP,
     name |-> Get(account, "name", <<>>),
     issuer |-> Get(account, "issuer", <<>>),
     secret |-> Get(account, "secret", <<>>),
     algorithm |-> Get(account, "algorithm", STR_SHA1),
     digits |-> Get(account, "digits", 6),
     period |-> 30,
     counter |-> Get(account, "counter", 0),
     original_text |-> text]

\* for account in accounts: decoded_data.append({...})
append_accounts(decoded_data, accounts, text) ==
    decoded_data \o [i \in 1..Len(accounts) |-> migration_entry(accounts[i], text)]

\* the inner except: the payload could not be decoded
migration_failed(decoded_data, text) ==
    Append(decoded_data,
           [type |-> "google_authenticator_migration", format |-> STR_UNKNOWN,
            error |-> "Failed to decode: binascii.Error",
            original_text |-> text])

\* the try block on query_params['data'][0], padded
migration_data(decoded_data, text, encoded_data) ==
    IF b64decode_ok(encoded_data)
    THEN [decoded_data |->
              append_accounts(decoded_data,
                  decode_google_authenticator_migration(b64decode(encoded_data)),
                  text),
          branch |-> "migration"]
    ELSE [decoded_data |-> migration_failed(decoded_data, text),
          branch |-> "migration_failed"]

\* the branch of a text that starts with 'otpauth-migration://'
migration_text(decoded_data, text, query_params) ==
    IF text.query # <<>> /\ "data" \in DOMAIN query_params
    THEN migration_data(decoded_data, text, add_padding(query_params["data"][1]))
    ELSE [decoded_data |-> decoded_data, branch |-> "migration_skipped"]

\* a slip: the error entry takes the place of the list
text_failed_alone(decoded_data, text) ==
    <<[type |-> "error", format |-> STR_UNKNOWN,
       error |-> "invalid literal for int() with base 10",
       original_text |-> text]>>

\* the outer except: an exception in the body of the for loop
text_failed(decoded_data, text) ==
    Append(decoded_data,
           [type |-> "error", format |-> STR_UNKNOWN,
            error |-> "invalid literal for int() with base 10",
            original_text |-> text])

\* the dict appended for an otpauth:// text, given path_parts and the
\* values of digits, period and counter before int()
otpauth_entry(text, path_parts, query_params, digits, period, counter) ==
    [type |-> "otpauth",
     format |-> upper(text.netloc),
     name |-> IF Len(path_parts) > 1 THEN path_parts[2] ELSE <<>>,
     issuer |-> IF path_parts # <<>> THEN path_parts[1] ELSE <<>>,
     secret |-> query_get(query_params, "secret", <<>>),
     algorithm |-> query_get(query_params, "algorithm", STR_SHA1),
     digits |-> int(digits),
     period |-> int(period),
     counter |-> int(counter),
     original_text |-> text]

\* the dict literal is built, which raises ValueError when an int() fails,
\* and then appended
otpauth_append(decoded_data, text, path_parts, query_params, digits, period, counter) ==
    IF int_ok(digits) /\ int_ok(period) /\ int_ok(counter)
    THEN [decoded_data |->
              Append(decoded_data,
                     otpauth_entry(text, path_parts, query_params,
                                   digits, period, counter)),
          branch |-> "otpauth"]
    ELSE [decoded_data |-> text_failed(decoded_data, text),
          branch |-> "otpauth_failed"]

\* the branch of a text that starts with 'otpauth://'; '6', '30', '0' are
\* the defaults of digits, period, counter
otpauth_text(decoded_data, text, query_params) ==
    otpauth_append(decoded_data, text, split(lstrip(text.path, 47), 47), query_params,
                   query_get(query_params, "digits", <<54>>),
                   query_get(query_params, "period", <<51, 48>>),
                   query_get(query_params, "counter", <<48>>))

\* the else branch: plain text or unknown format
plain_text(decoded_data, text) ==
    [decoded_data |->
         Append(decoded_data,
                [type |-> "text", format |-> STR_PLAIN, content |-> text,
                 original_text |-> text]),
     branch |-> "plain"]

\* the body of the for loop for one text: decoded_data after it, and the
\* branch taken
qr_iteration(decoded_data, text) ==
    IF text.prefix = "otpauth-migration://"
    THEN migration_text(decoded_data, text, parse_qs(text.query))
    ELSE IF text.prefix = "otpauth://"
    THEN otpauth_text(decoded_data, text, parse_qs(text.query))
    ELSE plain_text(decoded_data, text)

RECURSIVE qr_loop(_, _)
\* the for loop over texts from decoded_data
qr_loop(decoded_data, texts) ==
    IF texts = <<>> THEN decoded_data
    ELSE qr_loop(qr_iteration(decoded_data, Head(texts)).decoded_data, Tail(texts))

\* decode_qr_texts(texts) -> decoded_data
decode_qr_texts(texts) == qr_loop(<<>>, texts)

(***************************************************************************)
(* The standard varint encoding (protobuf base-128), the reference that    *)
(* parse_varint is compared with                                           *)
(***************************************************************************)
RECURSIVE encode_varint(_)
encode_varint(n) ==
    LET group == Val(BitAnd(n, BitsOf(127)))
        rest == Shr(n, 7)
    IN  IF rest = <<>> THEN <<group>>
        ELSE <<group + 128>> \o encode_varint(rest)

\* the integers below 2^VarintBits the round trip is run on
VarintBits == 35

AllOnes(n) == [i \in 1..n |-> 1]

TopOnly(n) == [i \in 1..n |-> IF i = n THEN 1 ELSE 0]

Stripes(n) == [i \in 1..n |-> IF i = n \/ i % 2 = 1 THEN 1 ELSE 0]

Gaps(n) == [i \in 1..n |-> IF i = n \/ i % 7 = 1 THEN 1 ELSE 0]

VarintInputs ==
    UNION {{AllOnes(n), TopOnly(n), Stripes(n), Gaps(n)} : n \in 0..VarintBits}

(***************************************************************************)
(* Migration buffers: wire encoding of fields, and the buffers decoded     *)
(***************************************************************************)
\* the tag of a field: (field_number << 3) | wire_type as a varint
Tag(field_number, wire_type) == encode_varint(BitsOf(field_number * 8 + wire_type))

\* a varint field (wire type 0) with value n
VarintField(field_number, n) == Tag(field_number, 0) \o encode_varint(BitsOf(n))

\* a length-delimited field (wire type 2)
BytesField(field_number, payload) ==
    Tag(field_number, 2) \o encode_varint(BitsOf(Len(payload))) \o payload

\* a field of another wire type: the tag and the raw bytes after it
RawField(field_number, wire_type, raw) == Tag(field_number, wire_type) \o raw

\* OtpParameters sub-messages
OtpEmpty == <<>>

OtpUnknownOnly == BytesField(8, <<0>>)

OtpHotp == VarintField(6, 0)

OtpSecret == BytesField(1, <<72, 105>>)

OtpSkipInside ==
    BytesField(2, <<97, 128>>) \o BytesField(8, <<48, 0>>) \o VarintField(6, 2)

OtpBreakInside ==
    VarintField(4, 2) \o RawField(9, 5, <<1, 2, 3, 4>>) \o VarintField(7, 300)

\* the sub-messages of the buffers given to the migration decoder
OtpPayloads == {OtpEmpty, OtpUnknownOnly, OtpHotp, OtpSecret, OtpBreakInside}

\* a top-level field: its bytes, the number of them before its value (the
\* tag, and the length of a length-delimited field), and for an account
\* field the sub-message
AccountItem(payload) ==
    [kind |-> "account", wire |-> BytesField(1, payload), head |-> 2,
     payload |-> payload]

OtherItem(kind, wire, head) ==
    [kind |-> kind, wire |-> wire, head |-> head, payload |-> <<>>]

AccountItems == {AccountItem(p) : p \in OtpPayloads}

\* batchSize, a two-byte varint
BatchItems == {OtherItem("batch", VarintField(3, 200), 1)}

\* unknown fields of wire types 0 and 2 (one with field number 1, one whose
\* payload reads as an account field)
UnknownItems ==
    {OtherItem("unknown", VarintField(1, 3), 1),
     OtherItem("unknown", BytesField(9, BytesField(1, OtpHotp)), 2)}

\* fields of wire types 5 and 3; the bytes after the first read as an account
BadWireItems ==
    {OtherItem("badwire", RawField(9, 5, BytesField(1, OtpHotp)), 1),
     OtherItem("badwire", RawField(1, 3, <<>>), 1)}

MigItems == AccountItems \cup BatchItems \cup UnknownItems \cup BadWireItems

\* the most top-level fields of a buffer
MaxItems == 3

MigItemLists == UNION {[1..n -> MigItems] : n \in 0..MaxItems}

RECURSIVE Wire(_)
\* the buffer made of a list of fields
Wire(its) == IF its = <<>> THEN <<>> ELSE Head(its).wire \o Wire(Tail(its))

Front(its) == SubSeq(its, 1, Len(its) - 1)

\* the buffers decoded for a list of fields: the whole buffer and every
\* proper prefix of it that cuts the last field (a cut inside an earlier
\* field is the buffer of a shorter list cut inside its last field)
MigInputs(its) ==
    {SubSeq(Wire(its), 1, n) : n \in (Len(Wire(Front(its))) + 1)..Len(Wire(its))}
    \cup {Wire(its)}

(***************************************************************************)
(* Texts given to decode_qr_texts                                          *)
(***************************************************************************)
Text(prefix, netloc, path, query) ==
    [prefix |-> prefix, netloc |-> netloc, path |-> path, query |-> query]

\* base64 of a buffer, with its '=' padding: the reference that builds the
\* data parameter of a migration text
b64encode(bytes) ==
    LET bits == BitString(bytes)
        bitAt(i) == IF i <= Len(bits) THEN bits[i] ELSE 0
        nchars == (Len(bits) + 5) \div 6
        total == ((nchars + 3) \div 4) * 4
        group(k) == 32 * bitAt(6 * k - 5) + 16 * bitAt(6 * k - 4) + 8 * bitAt(6 * k - 3)
                    + 4 * bitAt(6 * k - 2) + 2 * bitAt(6 * k - 1) + bitAt(6 * k)
        char(x) == IF x < 26 THEN 65 + x
                   ELSE IF x < 52 THEN 71 + x
                   ELSE IF x < 62 THEN x - 4
                   ELSE IF x = 62 THEN 43 ELSE 47
    IN  [k \in 1..total |-> IF k <= nchars THEN char(group(k)) ELSE 61]

\* 'totp', 'hotp', 'offline'
STR_totp == <<116, 111, 116, 112>>

STR_hotp == <<104, 111, 116, 112>>

STR_offline == <<111, 102, 102, 108, 105, 110, 101>>

\* '/ab', '/is/n', '/a/b/c', ''
Paths == {<<47, 97, 98>>, <<47, 105, 115, 47, 110>>, <<47, 97, 47, 98, 47, 99>>, <<>>}

\* '12', '7', 'x', ''
QueryValues == {<<49, 50>>, <<55>>, <<120>>, <<>>}

OtpauthKeys == {"secret", "algorithm", "digits", "period", "counter"}

IntKeys == {"digits", "period", "counter"}

\* a key once or twice, with every value
Queries ==
    {<<>>}
    \cup {<<<<k, a>>>> : k \in OtpauthKeys, a \in QueryValues}
    \cup {<<<<k, a>>, <<k, b>>>> : k \in OtpauthKeys, a \in QueryValues, b \in QueryValues}

OtpauthTexts ==
    {Text("otpauth://", STR_totp, <<47, 97, 98>>, q) : q \in Queries}
    \cup {Text("otpauth://", STR_hotp, p, <<<<"secret", <<120>>>>>>) : p \in Paths}

\* migration payloads: one HOTP account; an account, a version field and
\* an account; nothing but an empty sub-message
MigrationPayloads ==
    {Wire(<<AccountItem(OtpHotp)>>),
     Wire(<<AccountItem(OtpSecret), OtherItem("batch", VarintField(2, 1), 1),
            AccountItem(OtpSkipInside)>>),
     Wire(<<AccountItem(OtpEmpty)>>)}

\* migration texts: with a data parameter, padded or with the padding left
\* out, cut to a length that base64 cannot have, and without data or query
MigrationTexts ==
    {Text("otpauth-migration://", STR_offline, <<>>, <<<<"data", b64encode(m)>>>>) :
         m \in MigrationPayloads}
    \cup {Text("otpauth-migration://", STR_offline, <<>>,
               <<<<"data", SelectSeq(b64encode(m), IsNotPad)>>>>) :
              m \in MigrationPayloads}
    \cup {Text("otpauth-migration://", STR_offline, <<>>,
               <<<<"data", SubSeq(b64encode(Wire(<<AccountItem(OtpHotp)>>)), 1, 5)>>>>),
          Text("otpauth-migration://", STR_offline, <<>>, <<>>),
          Text("otpauth-migration://", STR_offline, <<>>, <<<<"secret", <<120>>>>>>)}

\* 'ab' as a plain text
PlainTexts == {Text("", <<>>, <<97, 98>>, <<>>)}

Texts == OtpauthTexts \cup MigrationTexts \cup PlainTexts

\* the texts that stand before and after the text under study: a plain
\* text, an otpauth text that decodes, one whose digits are no integer, and
\* a migration text of two accounts
Siblings ==
    PlainTexts
    \cup {Text("otpauth://", STR_totp, <<47, 97, 98>>, <<<<"digits", <<49, 50>>>>>>),
          Text("otpauth://", STR_totp, <<47, 97, 98>>, <<<<"digits", <<120>>>>>>),
          Text("otpauth-migration://", STR_offline, <<>>,
               <<<<"data", b64encode(Wire(<<AccountItem(OtpSecret), AccountItem(OtpHotp)>>))>>>>)}

\* the most sibling texts before, and after, the text under study
MaxSiblings == 1

SiblingLists == UNION {[1..n -> Siblings] : n \in 0..MaxSiblings}

TextLists ==
    {<<>>} \cup {pre \o <<t>> \o post : pre \in SiblingLists, t \in Texts, post \in SiblingLists}

(***************************************************************************)
(* Specification: varint round trip                                        *)
(***************************************************************************)
VarintOff == v = <<>> /\ vdata = <<>> /\ vres = <<>> /\ vpc = "off"

MigOff ==
    /\ mig_items = <<>>
    /\ mig_data = <<>>
    /\ mig_offset = 0
    /\ mig_accounts = <<>>
    /\ mig_pc = "off"
    /\ mig_iterations = 0

PrimOff ==
    /\ prim_data = <<>>
    /\ prim_offset = 0
    /\ prim_op = "none"
    /\ prim_ret = <<>>

QrOff ==
    /\ qr_texts = <<>>
    /\ qr_index = 0
    /\ qr_decoded = <<>>
    /\ qr_pc = "off"

OtpOff ==
    /\ otp_items = <<>>
    /\ otp_data = <<>>
    /\ otp_offset = 0
    /\ otp_account = <<>>
    /\ otp_pc = "off"
    /\ otp_iterations = 0

InitVarint ==
    /\ v \in VarintInputs
    /\ vdata = <<>>
    /\ vres = <<>>
    /\ vpc = "start"
    /\ MigOff
    /\ PrimOff
    /\ QrOff
    /\ OtpOff

Encode ==
    /\ vpc = "start"
    /\ vdata' = encode_varint(v)
    /\ vpc' = "encoded"
    /\ UNCHANGED <<v, vres, migVars, primVars, qrVars, otpVars>>

ReadVarint ==
    /\ vpc = "encoded"
    /\ vres' = parse_varint(vdata, 0)
    /\ vpc' = "parsed"
    /\ UNCHANGED <<v, vdata, migVars, primVars, qrVars, otpVars>>

NextVarint == Encode \/ ReadVarint

SpecVarint == InitVarint /\ [][NextVarint]_vars

(***************************************************************************)
(* Specification: decode_google_authenticator_migration, one loop          *)
(* iteration per step                                                      *)
(***************************************************************************)
InitMig ==
    /\ mig_items \in MigItemLists
    /\ mig_data \in MigInputs(mig_items)
    /\ mig_offset = 0
    /\ mig_accounts = <<>>
    /\ mig_pc = "loop"
    /\ mig_iterations = 0
    /\ VarintOff
    /\ PrimOff
    /\ QrOff
    /\ OtpOff

\* the loop runs one more iteration
MigInLoop == mig_pc = "loop" /\ mig_offset < Len(mig_data)

\* the iteration s took branch b: its effect on the decoder's locals
MigTake(b, s) ==
    /\ s.branch = b
    /\ mig_offset' = s.offset
    /\ mig_accounts' = s.accounts
    /\ mig_pc' = IF s.stop THEN "done" ELSE "loop"
    /\ mig_iterations' = mig_iterations + 1

\* field 1, wire type 2: decode the sub-message, append the account
MigOtpParameters ==
    /\ MigInLoop
    /\ MigTake("otp_parameters", mig_iteration(mig_data, mig_offset, mig_accounts))
    /\ UNCHANGED <<mig_items, mig_data, varintVars, primVars, qrVars, otpVars>>

\* fields 2 to 5, wire type 0: version, batchSize, batchIndex, batchId
MigBatchField ==
    /\ MigInLoop
    /\ MigTake("batch_field", mig_iteration(mig_data, mig_offset, mig_accounts))
    /\ UNCHANGED <<mig_items, mig_data, varintVars, primVars, qrVars, otpVars>>

\* another field of wire type 0
MigSkipVarint ==
    /\ MigInLoop
    /\ MigTake("skip_varint", mig_iteration(mig_data, mig_offset, mig_accounts))
    /\ UNCHANGED <<mig_items, mig_data, varintVars, primVars, qrVars, otpVars>>

\* another field of wire type 2
MigSkipBytes ==
    /\ MigInLoop
    /\ MigTake("skip_bytes", mig_iteration(mig_data, mig_offset, mig_accounts))
    /\ UNCHANGED <<mig_items, mig_data, varintVars, primVars, qrVars, otpVars>>

\* a field of any other wire type: break
MigBreak ==
    /\ MigInLoop
    /\ MigTake("break", mig_iteration(mig_data, mig_offset, mig_accounts))
    /\ UNCHANGED <<mig_items, mig_data, varintVars, primVars, qrVars, otpVars>>

\* the loop condition fails: return accounts
MigReturn ==
    /\ mig_pc = "loop"
    /\ ~(mig_offset < Len(mig_data))
    /\ mig_pc' = "done"
    /\ UNCHANGED <<mig_items, mig_data, mig_offset, mig_accounts, mig_iterations,
                   varintVars, primVars, qrVars, otpVars>>

NextMig ==
    \/ MigOtpParameters
    \/ MigBatchField
    \/ MigSkipVarint
    \/ MigSkipBytes
    \/ MigBreak
    \/ MigReturn

SpecMig == InitMig /\ [][NextMig]_vars

(***************************************************************************)
(* Specification: one call of parse_varint or parse_length_delimited on a  *)
(* buffer, well-formed or not                                              *)
(***************************************************************************)
\* bytes without and with the continuation bit
PrimBytes == {0, 1, 2, 3, 128, 130}

\* the longest buffer
PrimMaxLen == 3

PrimBuffers == UNION {[1..n -> PrimBytes] : n \in 0..PrimMaxLen}

InitPrim ==
    /\ prim_data \in PrimBuffers
    /\ prim_offset \in 0..Len(prim_data)
    /\ prim_op = "none"
    /\ prim_ret = <<>>
    /\ VarintOff
    /\ MigOff
    /\ QrOff
    /\ OtpOff

\* neither function has a raise statement or an operation that can fail on a
\* bytes buffer and an offset >= 0: a call always returns its pair
CallParseVarint ==
    /\ prim_op = "none"
    /\ prim_op' = "parse_varint"
    /\ prim_ret' = [raised |-> FALSE, value |-> parse_varint(prim_data, prim_offset)]
    /\ UNCHANGED <<prim_data, prim_offset, varintVars, migVars, qrVars, otpVars>>

CallParseLengthDelimited ==
    /\ prim_op = "none"
    /\ prim_op' = "parse_length_delimited"
    /\ prim_ret' = [raised |-> FALSE,
                    value |-> parse_length_delimited(prim_data, prim_offset)]
    /\ UNCHANGED <<prim_data, prim_offset, varintVars, migVars, qrVars, otpVars>>

NextPrim == CallParseVarint \/ CallParseLengthDelimited

SpecPrim == InitPrim /\ [][NextPrim]_vars

(***************************************************************************)
(* Specification: decode_qr_texts, one text of the for loop per step       *)
(***************************************************************************)
InitQr ==
    /\ qr_texts \in TextLists
    /\ qr_index = 0
    /\ qr_decoded = <<>>
    /\ qr_pc = "loop"
    /\ VarintOff
    /\ MigOff
    /\ PrimOff
    /\ OtpOff

\* the for loop has a next text
QrInLoop == qr_pc = "loop" /\ qr_index < Len(qr_texts)

\* the loop body s took branch b: its effect on the locals
QrTake(b, s) ==
    /\ s.branch = b
    /\ qr_decoded' = s.decoded_data
    /\ qr_index' = qr_index + 1

\* a migration text whose payload decodes: one entry per account
QrMigration ==
    /\ QrInLoop
    /\ QrTake("migration", qr_iteration(qr_decoded, qr_texts[qr_index + 1]))
    /\ UNCHANGED <<qr_texts, qr_pc, varintVars, migVars, primVars, otpVars>>

\* a migration text whose payload is no base64: the inner except
QrMigrationFailed ==
    /\ QrInLoop
    /\ QrTake("migration_failed", qr_iteration(qr_decoded, qr_texts[qr_index + 1]))
    /\ UNCHANGED <<qr_texts, qr_pc, varintVars, migVars, primVars, otpVars>>

\* a migration text without a query or without data: nothing is appended
QrMigrationSkipped ==
    /\ QrInLoop
    /\ QrTake("migration_skipped", qr_iteration(qr_decoded, qr_texts[qr_index + 1]))
    /\ UNCHANGED <<qr_texts, qr_pc, varintVars, migVars, primVars, otpVars>>

\* an otpauth text: one entry
QrOtpauth ==
    /\ QrInLoop
    /\ QrTake("otpauth", qr_iteration(qr_decoded, qr_texts[qr_index + 1]))
    /\ UNCHANGED <<qr_texts, qr_pc, varintVars, migVars, primVars, otpVars>>

\* an otpauth text on which int() raises: the outer except
QrOtpauthFailed ==
    /\ QrInLoop
    /\ QrTake("otpauth_failed", qr_iteration(qr_decoded, qr_texts[qr_index + 1]))
    /\ UNCHANGED <<qr_texts, qr_pc, varintVars, migVars, primVars, otpVars>>

\* any other text
QrPlain ==
    /\ QrInLoop
    /\ QrTake("plain", qr_iteration(qr_decoded, qr_texts[qr_index + 1]))
    /\ UNCHANGED <<qr_texts, qr_pc, varintVars, migVars, primVars, otpVars>>

\* the for loop is over: return decoded_data
QrReturn ==
    /\ qr_pc = "loop"
    /\ qr_index = Len(qr_texts)
    /\ qr_pc' = "done"
    /\ UNCHANGED <<qr_texts, qr_index, qr_decoded, varintVars, migVars, primVars, otpVars>>

NextQr ==
    \/ QrMigration
    \/ QrMigrationFailed
    \/ QrMigrationSkipped
    \/ QrOtpauth
    \/ QrOtpauthFailed
    \/ QrPlain
    \/ QrReturn

SpecQr == InitQr /\ [][NextQr]_vars

(***************************************************************************)
(* Specification: decode_otp_parameters, one loop iteration per step       *)
(***************************************************************************)
\* a field of a sub-message: its kind and its bytes
OtpItem(kind, wire) == [kind |-> kind, wire |-> wire]

\* secret, name, digits, type, counter (a two-byte varint)
OtpKnownItems ==
    {OtpItem("known", BytesField(1, <<72, 105>>)),
     OtpItem("known", BytesField(2, <<97>>)),
     OtpItem("known", VarintField(5, 8)),
     OtpItem("known", VarintField(6, 0)),
     OtpItem("known", VarintField(7, 300))}

\* fields 8 and 16 (a two-byte tag): a payload that reads as a type field,
\* a two-byte varint, an empty payload
OtpUnknownItems ==
    {OtpItem("unknown", BytesField(8, <<48, 0>>)),
     OtpItem("unknown", VarintField(8, 300)),
     OtpItem("unknown", BytesField(16, <<>>))}

\* a field of wire type 5
OtpBadWireItems == {OtpItem("badwire", RawField(9, 5, <<1, 2, 3, 4>>))}

OtpItems == OtpKnownItems \cup OtpUnknownItems \cup OtpBadWireItems

\* the most fields of a sub-message
MaxOtpItems == 3

OtpItemLists == UNION {[1..n -> OtpItems] : n \in 0..MaxOtpItems}

InitOtp ==
    /\ otp_items \in OtpItemLists
    /\ otp_data = Wire(otp_items)
    /\ otp_offset = 0
    /\ otp_account = EmptyDict
    /\ otp_pc = "loop"
    /\ otp_iterations = 0
    /\ VarintOff
    /\ MigOff
    /\ PrimOff
    /\ QrOff

\* the loop runs one more iteration
OtpInLoop == otp_pc = "loop" /\ otp_offset < Len(otp_data)

\* the iteration s took a branch of kind b: its effect on the locals
OtpTake(b, s) ==
    /\ s.branch = b
    /\ otp_offset' = s.offset
    /\ otp_account' = s.account
    /\ otp_pc' = IF s.stop THEN "done" ELSE "loop"
    /\ otp_iterations' = otp_iterations + 1

\* fields 1 to 3, wire type 2: secret, name, issuer
OtpBytesField ==
    /\ OtpInLoop
    /\ OtpTake("bytes_field", otp_iteration(otp_data, otp_offset, otp_account))
    /\ UNCHANGED <<otp_items, otp_data, varintVars, migVars, primVars, qrVars>>

\* fields 4 to 7, wire type 0: algorithm, digits, type, counter
OtpVarintField ==
    /\ OtpInLoop
    /\ OtpTake("varint_field", otp_iteration(otp_data, otp_offset, otp_account))
    /\ UNCHANGED <<otp_items, otp_data, varintVars, migVars, primVars, qrVars>>

\* another field of wire type 0
OtpSkipVarint ==
    /\ OtpInLoop
    /\ OtpTake("skip_varint", otp_iteration(otp_data, otp_offset, otp_account))
    /\ UNCHANGED <<otp_items, otp_data, varintVars, migVars, primVars, qrVars>>

\* another field of wire type 2
OtpSkipBytes ==
    /\ OtpInLoop
    /\ OtpTake("skip_bytes", otp_iteration(otp_data, otp_offset, otp_account))
    /\ UNCHANGED <<otp_items, otp_data, varintVars, migVars, primVars, qrVars>>

\* a field of any other wire type: break
OtpBreak ==
    /\ OtpInLoop
    /\ OtpTake("break", otp_iteration(otp_data, otp_offset, otp_account))
    /\ UNCHANGED <<otp_items, otp_data, varintVars, migVars, primVars, qrVars>>

\* the loop condition fails: return account
OtpReturn ==
    /\ otp_pc = "loop"
    /\ ~(otp_offset < Len(otp_data))
    /\ otp_pc' = "done"
    /\ UNCHANGED <<otp_items, otp_data, otp_offset, otp_account, otp_iterations,
                   varintVars, migVars, primVars, qrVars>>

NextOtp ==
    \/ OtpBytesField
    \/ OtpVarintField
    \/ OtpSkipVarint
    \/ OtpSkipBytes
    \/ OtpBreak
    \/ OtpReturn

SpecOtp == InitOtp /\ [][NextOtp]_vars

(***************************************************************************)
(* Specification: the loop of either decoder on any buffer, well-formed   *)
(* or not.  The code is sequential: a call that can take a step takes it,  *)
(* which is the weak fairness of the step.                                 *)
(***************************************************************************)
\* bytes that read as tags of every branch of both decoders (10: field 1
\* wire type 2, 32: field 4 wire type 0, 34: field 4 wire type 2, 13: wire
\* type 5, 0: field 0 wire type 0), as lengths and values, and as a
\* continuation byte
LoopBytes == {0, 1, 10, 13, 32, 34, 128}

\* the longest buffer
LoopMaxLen == 4

LoopBuffers == UNION {[1..n -> LoopBytes] : n \in 0..LoopMaxLen}

\* no decoder has been called
InitLoops ==
    /\ MigOff
    /\ OtpOff
    /\ VarintOff
    /\ PrimOff
    /\ QrOff

NoCallYet == mig_pc = "off" /\ otp_pc = "off"

\* decode_google_authenticator_migration is called on a buffer
CallMigration ==
    /\ NoCallYet
    /\ mig_data' \in LoopBuffers
    /\ mig_pc' = "loop"
    /\ UNCHANGED <<mig_items, mig_offset, mig_accounts, mig_iterations,
                   varintVars, primVars, qrVars, otpVars>>

\* decode_otp_parameters is called on a buffer
CallOtpParameters ==
    /\ NoCallYet
    /\ otp_data' \in LoopBuffers
    /\ otp_pc' = "loop"
    /\ UNCHANGED <<otp_items, otp_offset, otp_account, otp_iterations,
                   varintVars, migVars, primVars, qrVars>>

\* a step of the decoder that was called
LoopNext == NextMig \/ NextOtp

NextLoops ==
    \/ CallMigration
    \/ CallOtpParameters
    \/ LoopNext

\* a decoder is in its loop; every step of LoopNext counts an iteration or
\* leaves the loop, so this is when a step of LoopNext that changes vars
\* can be taken
LoopRunning == mig_pc = "loop" \/ otp_pc = "loop"

\* weak fairness of LoopNext, WF_vars(LoopNext), with LoopRunning written
\* for ENABLED <<LoopNext>>_vars
LoopRuns == []<>(~LoopRunning) \/ []<><<LoopNext>>_vars

SpecLoops == InitLoops /\ [][NextLoops]_vars /\ LoopRuns

(***************************************************************************)
(* Claims                                                                  *)
(***************************************************************************)
\* C1: parse_varint at offset 0 of the standard encoding of v < 2^35 returns
\* (v, number of bytes of the encoding)
C1_RoundTrip ==
    vpc = "parsed" => vres = <<v, Len(vdata)>>

C1_Witness ==
    /\ vpc = "parsed"
    /\ Len(v) = VarintBits
    /\ Len(vdata) = 5
    /\ vres[1] = v

\* the buffer ends while the last byte read from prim_offset on still has its
\* continuation bit set
EndsInContinuation ==
    /\ prim_offset < Len(prim_data)
    /\ \A i \in (prim_offset + 1)..Len(prim_data) : prim_data[i] >= 128

\* the length that the varint at prim_offset declares, and the bytes after it
DeclaredLength == Val(parse_varint(prim_data, prim_offset)[1])

Remaining == Len(prim_data) - parse_varint(prim_data, prim_offset)[2]

\* C2: parse_varint fails when the buffer ends on a continuation byte,
\* parse_length_delimited fails when the declared length exceeds the bytes
\* that remain, and no call returns a shortened slice or an offset past the
\* end of the buffer
C2_MalformedReported ==
    /\ (prim_op = "parse_varint" /\ EndsInContinuation) => prim_ret.raised
    /\ (prim_op = "parse_length_delimited" /\ DeclaredLength > Remaining)
           => prim_ret.raised
    /\ (prim_op = "parse_length_delimited" /\ ~prim_ret.raised)
           => /\ Len(prim_ret.value[1]) = DeclaredLength
              /\ prim_ret.value[2] <= Len(prim_data)

\* the decoder is about to read a field at mig_offset
MigHeader == parse_varint(mig_data, mig_offset)

MigWireType == BitAnd(MigHeader[1], BitsOf(7))

MigFieldNumber == Shr(MigHeader[1], 3)

\* the sub-message of the field 1 / wire type 2 at mig_offset
MigSubMessage == parse_length_delimited(mig_data, MigHeader[2])[1]

MigAtAccount ==
    /\ mig_pc = "loop"
    /\ mig_offset < Len(mig_data)
    /\ MigFieldNumber = BitsOf(1)
    /\ MigWireType = BitsOf(2)

\* the buffer is a proper prefix of the fields' bytes that cuts the value of
\* the last field: at least one byte of the value is there, at least one is not
CutInsideValue ==
    /\ mig_items # <<>>
    /\ Len(mig_data) < Len(Wire(mig_items))
    /\ Len(mig_data) >
           Len(Wire(Front(mig_items))) + mig_items[Len(mig_items)].head

WellFormed(its) == \A i \in 1..Len(its) : its[i].kind # "badwire"

\* C3: decoding a prefix that cuts a buffer inside a varint or a payload
\* returns exactly the records of the fields that lie before the cut, and
\* no record built from the cut field
C3_TruncatedPrefix ==
    (mig_pc = "done" /\ WellFormed(mig_items) /\ CutInsideValue)
        => mig_accounts = decode_google_authenticator_migration(Wire(Front(mig_items)))

\* C4 (amended): a field 1 / wire type 2 sub-message in which
\* decode_otp_parameters recognizes no field adds no record
C4_EmptyDropped ==
    [][(MigAtAccount /\ decode_otp_parameters(MigSubMessage) = EmptyDict)
           => mig_accounts' = mig_accounts]_vars

\* C4 (as claimed): a field 1 / wire type 2 sub-message without a
\* recognizable field still adds one record, with no value set
C4_EmptyKept ==
    [][(MigAtAccount /\ decode_otp_parameters(MigSubMessage) = EmptyDict)
           => mig_accounts' = Append(mig_accounts, EmptyDict)]_vars

\* an empty and an unknown-only sub-message were read, and nothing else
C4_Witness ==
    /\ Len(mig_items) >= 2
    /\ mig_items[1].payload = OtpEmpty /\ mig_items[1].kind = "account"
    /\ mig_items[2].payload = OtpUnknownOnly
    /\ mig_data = Wire(mig_items)
    /\ mig_offset = Len(Wire(SubSeq(mig_items, 1, 2)))
    /\ mig_accounts = <<>>

RECURSIVE SubMessageRecords(_)
\* decode_otp_parameters of each account sub-message of a list of fields
SubMessageRecords(its) ==
    IF its = <<>> THEN <<>>
    ELSE (IF Head(its).kind = "account"
          THEN <<decode_otp_parameters(Head(its).payload)>> ELSE <<>>)
         \o SubMessageRecords(Tail(its))

IsRecord(account) == account # EmptyDict

\* the whole of a well-formed buffer of accounts and version/batch fields
\* was decoded
AccountsAndBatchDone ==
    /\ mig_pc = "done"
    /\ mig_data = Wire(mig_items)
    /\ \A i \in 1..Len(mig_items) : mig_items[i].kind \in {"account", "batch"}

\* C5 (amended): the output is, in byte-stream order, the decoding of each
\* account sub-message in which decode_otp_parameters recognizes a field
C5_OrderKept ==
    AccountsAndBatchDone
        => mig_accounts = SelectSeq(SubMessageRecords(mig_items), IsRecord)

\* C5 (as claimed): the i-th record of the output is the decoding of the
\* i-th account sub-message
C5_OneRecordEach ==
    AccountsAndBatchDone => mig_accounts = SubMessageRecords(mig_items)

\* two different accounts with a batch field between them
C5_Witness ==
    /\ AccountsAndBatchDone
    /\ Len(mig_items) = 3
    /\ mig_items[1].payload = OtpSecret
    /\ mig_items[2].kind = "batch"
    /\ mig_items[3].payload = OtpHotp
    /\ Len(mig_accounts) = 2
    /\ mig_accounts[1] = decode_otp_parameters(OtpSecret)

\* the decoder is about to read a tag whose wire type is neither 0 nor 2
MigAtBadWireType ==
    /\ mig_pc = "loop"
    /\ mig_offset < Len(mig_data)
    /\ MigWireType \notin {BitsOf(0), BitsOf(2)}

\* C10: at a tag whose wire type is neither 0 nor 2 the decoder returns the
\* records it had, which are those of the buffer cut after that tag
C10_StopsAtBadWireType ==
    [][MigAtBadWireType
           => /\ mig_pc' = "done"
              /\ mig_accounts' = mig_accounts
              /\ mig_accounts' = decode_google_authenticator_migration(
                                     SubSeq(mig_data, 1, MigHeader[2]))]_vars

\* the decoder stopped with records, at a tag with bytes after it
C10_Witness ==
    /\ mig_pc = "done"
    /\ mig_offset < Len(mig_data)
    /\ mig_accounts # <<>>

\* the entries and the accounts of a list of one migration text that decodes
OneMigrationText ==
    /\ qr_pc = "done"
    /\ Len(qr_texts) = 1
    /\ qr_texts[1].prefix = "otpauth-migration://"
    /\ "data" \in DOMAIN parse_qs(qr_texts[1].query)
    /\ b64decode_ok(add_padding(parse_qs(qr_texts[1].query)["data"][1]))

TextAccounts(text) ==
    decode_google_authenticator_migration(
        b64decode(add_padding(parse_qs(text.query)["data"][1])))

\* C6: the record emitted for a migration sub-message has the OTP type of
\* its field 6: HOTP for code 0, TOTP for any other code or none
C6_TypeReported ==
    OneMigrationText
        => \A i \in 1..Len(qr_decoded) :
               qr_decoded[i].format = Get(TextAccounts(qr_texts[1])[i], "type", STR_TOTP)

\* the label of an otpauth text: its path after the first '/'
Label(text) ==
    IF text.path # <<>> /\ Head(text.path) = 47 THEN Tail(text.path) ELSE text.path

HasSlash(s) == \E i \in 1..Len(s) : s[i] = 47

\* C7: a label without '/' gives issuer '' and the label as name; in a label
\* with '/' the segment before the first '/' is the issuer and the segment
\* after it the name
C7_LabelSplit ==
    \A i \in 1..Len(qr_decoded) :
        qr_decoded[i].type = "otpauth"
            => LET label == Label(qr_decoded[i].original_text)
               IN  IF HasSlash(label)
                   THEN /\ qr_decoded[i].issuer = split(label, 47)[1]
                        /\ qr_decoded[i].name = split(label, 47)[2]
                   ELSE /\ qr_decoded[i].issuer = <<>>
                        /\ qr_decoded[i].name = label

\* the places in a query where key has a value that is not blank
FilledPlaces(query, key) ==
    {i \in 1..Len(query) : query[i][1] = key /\ query[i][2] # <<>>}

Least(S) == CHOOSE i \in S : \A j \in S : i <= j

Greatest(S) == CHOOSE i \in S : \A j \in S : i >= j

\* the value of a key as the entry holds it: an integer for digits, period,
\* counter
AsHeld(key, value) == IF key \in IntKeys THEN int(value) ELSE value

\* C8 (amended): the record carries, for each key, the value of its first
\* occurrence that is not blank
C8_FirstWins ==
    \A i \in 1..Len(qr_decoded) : \A key \in OtpauthKeys :
        LET query == qr_decoded[i].original_text.query
        IN  (qr_decoded[i].type = "otpauth" /\ FilledPlaces(query, key) # {})
                => qr_decoded[i][key]
                       = AsHeld(key, query[Least(FilledPlaces(query, key))][2])

\* C8 (as claimed): the record carries, for each key that occurs more than
\* once with a value, the value of its last occurrence
C8_LastWins ==
    \A i \in 1..Len(qr_decoded) : \A key \in OtpauthKeys :
        LET query == qr_decoded[i].original_text.query
        IN  (/\ qr_decoded[i].type = "otpauth"
             /\ Cardinality(FilledPlaces(query, key)) > 1
             /\ key \in IntKeys
                    => int_ok(query[Greatest(FilledPlaces(query, key))][2]))
                => qr_decoded[i][key]
                       = AsHeld(key, query[Greatest(FilledPlaces(query, key))][2])

\* digits=12&digits=7 was decoded
C8_Witness ==
    /\ qr_pc = "done"
    /\ \E i \in 1..Len(qr_decoded) :
           /\ qr_decoded[i].type = "otpauth"
           /\ qr_decoded[i].original_text.query
                  = <<<<"digits", <<49, 50>>>>, <<"digits", <<55>>>>>>
           /\ qr_decoded[i].digits = 12

\* an otpauth text whose digits, period or counter is no integer
Failing(text) ==
    /\ text.prefix = "otpauth://"
    /\ \E key \in IntKeys :
           /\ FilledPlaces(text.query, key) # {}
           /\ ~int_ok(text.query[Least(FilledPlaces(text.query, key))][2])

NotFailing(text) == ~Failing(text)

FromFailing(entry) == Failing(entry.original_text)

NotFromFailing(entry) == ~Failing(entry.original_text)

\* C9: each failing otpauth text gives one error entry, and the entries of
\* the other texts are those of the list without the failing texts
C9_ErrorIsolated ==
    qr_pc = "done"
        => /\ Len(SelectSeq(qr_decoded, FromFailing)) = Len(SelectSeq(qr_texts, Failing))
           /\ \A i \in 1..Len(SelectSeq(qr_decoded, FromFailing)) :
                  /\ "error" \in DOMAIN SelectSeq(qr_decoded, FromFailing)[i]
                  /\ SelectSeq(qr_decoded, FromFailing)[i].original_text
                         = SelectSeq(qr_texts, Failing)[i]
           /\ SelectSeq(qr_decoded, NotFromFailing)
                  = decode_qr_texts(SelectSeq(qr_texts, NotFailing))

\* a failing text between a migration text and a plain text
C9_Witness ==
    /\ qr_pc = "done"
    /\ Len(qr_texts) = 3
    /\ qr_texts[1].prefix = "otpauth-migration://"
    /\ Failing(qr_texts[2])
    /\ qr_texts[3].prefix = ""
    /\ Len(qr_decoded) = 4
    /\ qr_decoded[3].type = "error"
    /\ qr_decoded[4].type = "text"

\* every field of the sub-message is a known field or an unknown field of
\* wire type 0 or 2, and the decoder has returned
OtpKnownAndUnknownDone ==
    /\ otp_pc = "done"
    /\ \A i \in 1..Len(otp_items) : otp_items[i].kind \in {"known", "unknown"}

IsKnownItem(item) == item.kind = "known"

\* C11: unknown fields of wire type 0 or 2 among known fields are skipped
\* by their exact length: the record is that of the sub-message without
\* them, and the decoder ends at the end of the buffer
C11_UnknownSkipped ==
    OtpKnownAndUnknownDone
        => /\ otp_account
                  = decode_otp_parameters(Wire(SelectSeq(otp_items, IsKnownItem)))
           /\ otp_offset = Len(otp_data)

\* the secret, field 8 with a payload that reads as a type field, the
\* counter: both known fields were decoded and no type was set
C11_Witness ==
    /\ otp_pc = "done"
    /\ otp_items = <<OtpItem("known", BytesField(1, <<72, 105>>)),
                     OtpItem("unknown", BytesField(8, <<48, 0>>)),
                     OtpItem("known", VarintField(7, 300))>>
    /\ DOMAIN otp_account = {"secret", "counter"}
    /\ otp_account["counter"] = 300

\* an iteration of either loop breaks or moves the offset forward, and a
\* loop whose offset is not below len(data) returns
LoopStep ==
    /\ MigInLoop => (mig_pc' = "done" \/ mig_offset' > mig_offset)
    /\ OtpInLoop => (otp_pc' = "done" \/ otp_offset' > otp_offset)
    /\ (mig_pc = "loop" /\ mig_offset >= Len(mig_data)) => mig_pc' = "done"
    /\ (otp_pc = "loop" /\ otp_offset >= Len(otp_data)) => otp_pc' = "done"

\* C12: on every buffer the loops of both decoders terminate: each
\* iteration breaks or strictly increases offset, the loop ends once
\* offset >= len(data), there are no more iterations than bytes, and the
\* call returns
C12_LoopsTerminate ==
    /\ [][LoopStep]_vars
    /\ [](mig_iterations <= Len(mig_data) /\ otp_iterations <= Len(otp_data))
    /\ (mig_pc = "loop") ~> (mig_pc = "done")
    /\ (otp_pc = "loop") ~> (otp_pc = "done")

\* the migration loop ended with its offset past the end of a full-length
\* buffer, after a declared length longer than the bytes left
C12_Witness ==
    /\ mig_pc = "done"
    /\ Len(mig_data) = LoopMaxLen
    /\ mig_offset > Len(mig_data)
    /\ mig_accounts # <<>>

\* a migration text without a query string or without a data parameter
MigrationWithoutData(text) ==
    /\ text.prefix = "otpauth-migration://"
    /\ \A i \in 1..Len(text.query) : text.query[i][1] # "data"

\* C13: a migration text without a query string or without a data
\* parameter still contributes an entry that carries it as original_text
C13_MissingDataReported ==
    qr_pc = "done"
        => \A i \in 1..Len(qr_texts) :
               MigrationWithoutData(qr_texts[i])
                   => \E j \in 1..Len(qr_decoded) :
                          qr_decoded[j].original_text = qr_texts[i]

====
